---- MODULE Spec2Model ----
(***************************************************************************)
(* Model of scripts/generate_performance_goals.py: the input loader, the   *)
(* formatter, the (role, category) generation loop, the table assembly and *)
(* the workbook writer, with main()'s exception handling.                  *)
(*                                                                         *)
(* Python str values on which the program computes (header names, goal     *)
(* texts, exception messages) are sequences of one-character strings.      *)
(* Values the program only carries around (cell values of the two input    *)
(* sheets) are TLA+ strings.                                               *)
(***************************************************************************)
EXTENDS Integers, Sequences, FiniteSets, TLC

VARIABLES
    argv,         \* command line: [api_key], "None" when --api-key is absent
    environ,      \* os.environ: [ANTHROPIC_API_KEY], "None" when unset
    fs,           \* file system: [cat, roles: sheet or "missing", out: workbook or "absent"]
    client,       \* the client object built at lines 114-129
    categories,   \* DataFrame of line 133: sequence of rows
    roles,        \* DataFrame of line 134: sequence of rows
    output_data,  \* the dict of lines 139-146: [keys, vals]
    ri,           \* position of the roles.iterrows() loop (line 152)
    ci,           \* position of the categories.iterrows() loop (line 163)
    calls,        \* generation calls made so far, in order, with their results
    output_df,    \* DataFrame of line 190
    pc,           \* position of the run
    exit_code,    \* process exit status, "None" while running
    stderr,       \* what main() printed to stderr
    text,         \* formatter study: the raw text
    once,         \* formatter study: format_goals_for_excel(text)
    twice,        \* formatter study: format_goals_for_excel(once)
    sheet,        \* loader study: [exists, headers, rows, expected]
    loaded,       \* loader study: the outcome of load_excel_data
    ncat,         \* column-width study: number of categories
    idx,          \* column-width study: position of the loop of line 205
    widths        \* column-width study: worksheet.column_dimensions

vars == <<argv, environ, fs, client, categories, roles, output_data, ri, ci,
          calls, output_df, pc, exit_code, stderr,
          text, once, twice, sheet, loaded, ncat, idx, widths>>

runVars == <<argv, environ, fs, client, categories, roles, output_data, ri, ci,
             calls, output_df, exit_code, stderr>>
fmtVars == <<text, once, twice>>
loadVars == <<sheet, loaded>>
widthVars == <<ncat, idx, widths>>

(***************************************************************************)
(* Python str operations                                                   *)
(***************************************************************************)
\* characters str.strip() removes
Whitespace == {" ", "\t", "\n", "\r", "\f"}

UpperCase == <<"A","B","C","D","E","F","G","H","I","J","K","L","M",
               "N","O","P","Q","R","S","T","U","V","W","X","Y","Z">>
LowerCase == <<"a","b","c","d","e","f","g","h","i","j","k","l","m",
               "n","o","p","q","r","s","t","u","v","w","x","y","z">>

LowerChar(c) ==
    IF \E k \in 1..Len(UpperCase) : UpperCase[k] = c
    THEN LowerCase[CHOOSE k \in 1..Len(UpperCase) : UpperCase[k] = c]
    ELSE c

\* str.lower()
Lower(s) == [k \in 1..Len(s) |-> LowerChar(s[k])]

RECURSIVE LStrip(_)
LStrip(s) ==
    IF s # <<>> /\ Head(s) \in Whitespace THEN LStrip(Tail(s)) ELSE s

RECURSIVE RStrip(_)
RStrip(s) ==
    IF s # <<>> /\ s[Len(s)] \in Whitespace
    THEN RStrip(SubSeq(s, 1, Len(s) - 1))
    ELSE s

\* str.strip()
Strip(s) == RStrip(LStrip(s))

\* str.replace(old, new): occurrences are found left to right and do not overlap
RECURSIVE Replace(_, _, _)
Replace(s, old, new) ==
    IF Len(s) < Len(old) THEN s
    ELSE IF SubSeq(s, 1, Len(old)) = old
         THEN new \o Replace(SubSeq(s, Len(old) + 1, Len(s)), old, new)
         ELSE <<Head(s)>> \o Replace(Tail(s), old, new)

\* old in s
Contains(s, old) ==
    \E k \in 1..(Len(s) - Len(old) + 1) : SubSeq(s, k, k + Len(old) - 1) = old

(***************************************************************************)
(* format_goals_for_excel                                                  *)
(***************************************************************************)
Separator == <<"\n", "-", "-", "-", "\n">>
ParagraphBreak == <<"\n", "\n">>

\* str.replace(old, new, 1)
RECURSIVE ReplaceFirst(_, _, _)
ReplaceFirst(s, old, new) ==
    IF Len(s) < Len(old) THEN s
    ELSE IF SubSeq(s, 1, Len(old)) = old
         THEN new \o SubSeq(s, Len(old) + 1, Len(s))
         ELSE <<Head(s)>> \o ReplaceFirst(Tail(s), old, new)

\* only the first separator replaced
format_goals_first_only(goals_text) ==
    Strip(ReplaceFirst(goals_text, Separator, ParagraphBreak))

format_goals_for_excel(goals_text) ==
    Strip(Replace(goals_text, Separator, ParagraphBreak))

(***************************************************************************)
(* Formatter study: format_goals_for_excel applied once and twice to every *)
(* text of at most MaxLines lines drawn from LinePool.                     *)
(***************************************************************************)
MaxLines == 5

Dashes == <<"-", "-", "-">>
LinePool ==
    {<<>>, Dashes, <<"-", "-">>, <<"-", "-", "-", "-">>,
     <<"a">>, <<" ">>, <<" ">> \o Dashes}

\* "\n".join(lines)
RECURSIVE Join(_)
Join(lines) ==
    IF lines = <<>> THEN <<>>
    ELSE IF Len(lines) = 1 THEN lines[1]
    ELSE lines[1] \o <<"\n">> \o Join(Tail(lines))

Idle == "idle"

RunIdle ==
    /\ argv = Idle /\ environ = Idle /\ fs = Idle /\ client = Idle
    /\ categories = Idle /\ roles = Idle /\ output_data = Idle
    /\ ri = 0 /\ ci = 0 /\ calls = <<>> /\ output_df = Idle
    /\ exit_code = 0 /\ stderr = Idle
FmtIdle == text = Idle /\ once = Idle /\ twice = Idle
LoadIdle == sheet = Idle /\ loaded = Idle
WidthIdle == ncat = 0 /\ idx = 0 /\ widths = Idle

InitFmt ==
    /\ \E n \in 0..MaxLines : \E lines \in [1..n -> LinePool] : text = Join(lines)
    /\ once = Idle /\ twice = Idle
    /\ pc = "raw"
    /\ RunIdle /\ LoadIdle /\ WidthIdle

Format ==
    /\ pc = "raw"
    /\ once' = format_goals_for_excel(text)
    /\ pc' = "formatted"
    /\ UNCHANGED <<text, twice, runVars, loadVars, widthVars>>

Reformat ==
    /\ pc = "formatted"
    /\ twice' = format_goals_for_excel(once)
    /\ pc' = "reformatted"
    /\ UNCHANGED <<text, once, runVars, loadVars, widthVars>>

NextFmt == Format \/ Reformat

SpecFmt == InitFmt /\ [][NextFmt]_vars

\* C3 (as stated): formatting an already formatted text changes nothing, and
\* no separator occurrence is left after one application.
C3_Idempotent ==
    pc = "reformatted" => twice = once /\ ~Contains(once, Separator)

\* two separator lines in a row: the second shares its leading newline with the first
AdjacentSeparators == <<"\n", "-", "-", "-", "\n", "-", "-", "-", "\n">>

\* C3 (amended): on a text without two adjacent separator lines, formatting
\* is idempotent and leaves no separator occurrence.
C3_IdempotentWithoutAdjacent ==
    (pc = "reformatted" /\ ~Contains(text, AdjacentSeparators))
        => twice = once /\ ~Contains(once, Separator)

C3_Witness ==
    /\ pc = "reformatted"
    /\ Contains(text, Separator)
    /\ ~Contains(text, AdjacentSeparators)
    /\ once # text
    /\ twice = once

(***************************************************************************)
(* load_excel_data                                                         *)
(*                                                                         *)
(* A workbook file is [exists, headers, rows]: the header row of its first *)
(* sheet and the data rows under it, each as wide as the header row.       *)
(***************************************************************************)
Min(a, b) == IF a < b THEN a ELSE b

\* s[:n]
Slice(s, n) == SubSeq(s, 1, Min(n, Len(s)))

\* [f(x) for x in s] with f = str.lower
LowerAll(names) == [k \in 1..Len(names) |-> Lower(names[k])]

\* df.columns.str.strip()
StripAll(names) == [k \in 1..Len(names) |-> Strip(names[k])]

NoFrame == [columns |-> <<>>, rows |-> <<>>]

Raise(kind, expected, found) ==
    [raised |-> kind, expected |-> expected, found |-> found, df |-> NoFrame]

Return(columns, rows) ==
    [raised |-> "None", expected |-> <<>>, found |-> <<>>,
     df |-> [columns |-> columns, rows |-> rows]]

\* the header check without the strip of line 31
load_excel_data_unstripped(file, expected_columns) ==
    IF ~file.exists THEN Raise("FileNotFoundError", <<>>, <<>>)
    ELSE LET n == Len(expected_columns)
             actual_cols == LowerAll(Slice(file.headers, n))
         IN  IF actual_cols # LowerAll(expected_columns)
             THEN Raise("ValueError", expected_columns, Slice(file.headers, n))
             ELSE Return(expected_columns,
                         [r \in 1..Len(file.rows) |-> Slice(file.rows[r], n)])

IsPrefix(s, t) == Len(s) <= Len(t) /\ SubSeq(t, 1, Len(s)) = s

\* the header check accepting a header that abbreviates the expected name
load_excel_data_abbreviated(file, expected_columns) ==
    IF ~file.exists THEN Raise("FileNotFoundError", <<>>, <<>>)
    ELSE LET columns == StripAll(file.headers)
             n == Len(expected_columns)
             actual_cols == LowerAll(Slice(columns, n))
             expected_cols_lower == LowerAll(expected_columns)
         IN  IF \/ Len(actual_cols) # n
                \/ \E k \in 1..n : ~IsPrefix(actual_cols[k], expected_cols_lower[k])
             THEN Raise("ValueError", expected_columns, Slice(columns, n))
             ELSE Return(expected_columns,
                         [r \in 1..Len(file.rows) |-> Slice(file.rows[r], n)])

\* a missing file read as an empty sheet with the expected headers
load_excel_data_missing_as_empty(file, expected_columns) ==
    IF ~file.exists THEN Return(expected_columns, <<>>)
    ELSE LET columns == StripAll(file.headers)
             n == Len(expected_columns)
             actual_cols == LowerAll(Slice(columns, n))
             expected_cols_lower == LowerAll(expected_columns)
         IN  IF actual_cols # expected_cols_lower
             THEN Raise("ValueError", expected_columns, Slice(columns, n))
             ELSE Return(expected_columns,
                         [r \in 1..Len(file.rows) |-> Slice(file.rows[r], n)])

load_excel_data(file, expected_columns) ==
    IF ~file.exists THEN Raise("FileNotFoundError", <<>>, <<>>)
    ELSE LET columns == StripAll(file.headers)
             n == Len(expected_columns)
             actual_cols == LowerAll(Slice(columns, n))
             expected_cols_lower == LowerAll(expected_columns)
         IN  IF actual_cols # expected_cols_lower
             THEN Raise("ValueError", expected_columns, Slice(columns, n))
             ELSE Return(expected_columns,
                         [r \in 1..Len(file.rows) |-> Slice(file.rows[r], n)])

(***************************************************************************)
(* Header names                                                            *)
(***************************************************************************)
H_Category == <<"C","a","t","e","g","o","r","y">>
H_Description == <<"D","e","s","c","r","i","p","t","i","o","n">>
H_Number_of_Goals == <<"N","u","m","b","e","r","_","o","f","_","G","o","a","l","s">>
H_Role == <<"R","o","l","e">>
H_Job_Description == <<"J","o","b"," ","D","e","s","c","r","i","p","t","i","o","n">>

CategoryColumns == <<H_Category, H_Description, H_Number_of_Goals>>
RoleColumns == <<H_Role, H_Job_Description>>

\* headers as sheets may carry them
H_cat == <<"c","a","t">>
H_desc == <<"d","e","s","c">>
H_n == <<"n">>
H_CATEGORY_padded == <<" ","C","A","T","E","G","O","R","Y","\n">>
H_description_lower == <<"d","e","s","c","r","i","p","t","i","o","n">>
H_number_of_goals_padded == <<"\t","n","u","m","b","e","r","_","o","f","_","g","o","a","l","s">>
H_ROLE_padded == <<"R","O","L","E"," "," ">>
H_job_description_lower == <<"j","o","b"," ","d","e","s","c","r","i","p","t","i","o","n">>
H_Job_Description_inner == <<"J","o","b"," "," ","D","e","s","c","r","i","p","t","i","o","n">>

(***************************************************************************)
(* Loader study: load_excel_data on every sheet of at most MaxCols columns *)
(* with headers from HeaderPool, against either expected column list.      *)
(***************************************************************************)
MaxCols == 3
MaxRows == 1

HeaderPool ==
    {H_Category, H_CATEGORY_padded, H_cat,
     H_Description, H_desc,
     H_number_of_goals_padded, H_n,
     H_Role, H_ROLE_padded,
     H_job_description_lower, H_Job_Description_inner}

StudyRows(nrows, ncols) == [r \in 1..nrows |-> [k \in 1..ncols |-> <<r, k>>]]

InitLoad ==
    /\ \E e \in {CategoryColumns, RoleColumns} :
          \/ sheet = [exists |-> FALSE, headers |-> <<>>, rows |-> <<>>, expected |-> e]
          \/ \E n \in 0..MaxCols, nr \in 0..MaxRows :
                \E h \in [1..n -> HeaderPool] :
                    sheet = [exists |-> TRUE, headers |-> h,
                             rows |-> StudyRows(nr, n), expected |-> e]
    /\ loaded = Idle
    /\ pc = "closed"
    /\ RunIdle /\ FmtIdle /\ WidthIdle

Load ==
    /\ pc = "closed"
    /\ loaded' = load_excel_data(sheet, sheet.expected)
    /\ pc' = "loaded"
    /\ UNCHANGED <<sheet, runVars, fmtVars, widthVars>>

NextLoad == Load

SpecLoad == InitLoad /\ [][NextLoad]_vars

\* the first N headers, trimmed and lowercased, differ from the lowercased
\* expected names (or there are fewer than N headers)
HeaderMismatch(headers, expected) ==
    \/ Len(headers) < Len(expected)
    \/ \E k \in 1..Len(expected) : Lower(Strip(headers[k])) # Lower(expected[k])

AbbreviatedHeaders == <<H_cat, H_desc, H_n>>

\* C5 (as stated): headers cat, desc, n load against Category, Description,
\* Number_of_Goals without raising.
C5_AbbreviationsAccepted ==
    (/\ pc = "loaded"
     /\ sheet.exists
     /\ sheet.headers = AbbreviatedHeaders
     /\ sheet.expected = CategoryColumns) => loaded.raised = "None"

\* C5 (amended): headers cat, desc, n fail against Category, Description,
\* Number_of_Goals with the schema error naming both lists.
C5_AbbreviationsRejected ==
    (/\ pc = "loaded"
     /\ sheet.exists
     /\ sheet.headers = AbbreviatedHeaders
     /\ sheet.expected = CategoryColumns) =>
        /\ loaded.raised = "ValueError"
        /\ loaded.expected = CategoryColumns
        /\ loaded.found = AbbreviatedHeaders

C5_Witness ==
    /\ pc = "loaded"
    /\ sheet.exists
    /\ sheet.headers = AbbreviatedHeaders
    /\ sheet.expected = CategoryColumns
    /\ loaded.raised = "ValueError"

(***************************************************************************)
(* The run: main() calling generate_performance_goals                      *)
(***************************************************************************)
\* Optional[str]
None == [set |-> FALSE, value |-> <<>>]
Some(v) == [set |-> TRUE, value |-> v]

\* Python truthiness of an Optional[str]: None and "" are false
Truthy(x) == x.set /\ x.value # <<>>

NoClient == [kind |-> "None", api_key |-> <<>>]

\* lines 114-129: the api_key parameter is overwritten by the environment's value
MakeClient(arg_key, env_key) ==
    LET api_key == env_key IN
    IF Truthy(api_key)
    THEN [kind |-> "Anthropic", api_key |-> api_key.value]
    ELSE [kind |-> "AnthropicFoundry", api_key |-> <<>>]

\* dict, in insertion order: keys and their values in parallel
EmptyDict == [keys |-> <<>>, vals |-> <<>>]
HasKey(d, k) == \E i \in 1..Len(d.keys) : d.keys[i] = k
KeyIndex(d, k) == CHOOSE i \in 1..Len(d.keys) : d.keys[i] = k

\* d[k] = v
DictSet(d, k, v) ==
    IF HasKey(d, k)
    THEN [d EXCEPT !.vals[KeyIndex(d, k)] = v]
    ELSE [keys |-> Append(d.keys, k), vals |-> Append(d.vals, v)]

\* d[k].append(x)
DictAppend(d, k, x) == [d EXCEPT !.vals[KeyIndex(d, k)] = Append(@, x)]

\* row[name] of a DataFrame row
Field(df, row, name) == row[CHOOSE i \in 1..Len(df.columns) : df.columns[i] = name]

\* df[name]
Column(df, name) == [r \in 1..Len(df.rows) |-> Field(df, df.rows[r], name)]

\* lines 139-146
RECURSIVE AddCategoryColumns(_, _)
AddCategoryColumns(d, names) ==
    IF names = <<>> THEN d
    ELSE AddCategoryColumns(DictSet(d, Head(names), <<>>), Tail(names))

\* the category columns created before the two fixed columns
InitialOutputData_categories_first(cats) ==
    DictSet(DictSet(AddCategoryColumns(EmptyDict, Column(cats, H_Category)),
                    H_Role, <<>>),
            H_Job_Description, <<>>)

InitialOutputData(cats) ==
    AddCategoryColumns(
        DictSet(DictSet(EmptyDict, H_Role, <<>>), H_Job_Description, <<>>),
        Column(cats, H_Category))

\* pd.DataFrame(dict of lists): the lists must have one length
SameLength(d) ==
    \A i, j \in 1..Len(d.vals) : Len(d.vals[i]) = Len(d.vals[j])

Table(d, nrows) ==
    [columns |-> d.keys,
     rows |-> [r \in 1..nrows |-> [c \in 1..Len(d.keys) |-> d.vals[c][r]]]]

RECURSIVE Shortest(_)
Shortest(lists) ==
    IF lists = <<>> THEN 0
    ELSE IF Len(lists) = 1 THEN Len(lists[1])
    ELSE Min(Len(lists[1]), Shortest(Tail(lists)))

\* rows zipped from the lists, the longer lists cut to the shortest
DataFrame_zipped(d) == [raised |-> FALSE, df |-> Table(d, Shortest(d.vals))]

\* line 190
DataFrame(d) ==
    IF SameLength(d)
    THEN [raised |-> FALSE, df |-> Table(d, Shortest(d.vals))]
    ELSE [raised |-> TRUE, df |-> NoFrame]

\* the reply of the remote model, a function of what the prompt names
GoalLabel == <<"G", "o", "a", "l", ":", " ">>
Reply(role, category) ==
    GoalLabel \o role \o Separator \o GoalLabel \o category \o <<"\n", "\n">>

ErrorPrefix == <<"E", "r", "r", "o", "r", ":", " ">>
ServiceError == <<"t", "i", "m", "e", "o", "u", "t">>

DefaultTimePeriod == 12

NumRaised(log) == Cardinality({k \in 1..Len(log) : log[k].raised})

\* column widths, lines 200-207; a column letter is the sequence of its code points
RoleWidth == 20
JobDescriptionWidth == 40
CategoryWidth == 50
FirstCategoryColumn == 3
LetterBase == 64

\* chr(n)
Chr(n) == <<n>>

\* column_dimensions[letter].width = w
SetWidth(dims, letter, w) ==
    [l \in (DOMAIN dims) \cup {letter} |-> IF l = letter THEN w ELSE dims[l]]

NoWidths == [l \in {} |-> 0]

FixedWidths ==
    SetWidth(SetWidth(NoWidths, Chr(LetterBase + 1), RoleWidth),
             Chr(LetterBase + 2), JobDescriptionWidth)

col_letter(position) == Chr(LetterBase + position)

RECURSIVE CategoryWidths(_, _, _)
CategoryWidths(dims, position, n) ==
    IF n = 0 THEN dims
    ELSE CategoryWidths(SetWidth(dims, col_letter(position), CategoryWidth),
                        position + 1, n - 1)

ColumnWidths(n) == CategoryWidths(FixedWidths, FirstCategoryColumn, n)

NoWorkbook == [written |-> FALSE, sheet_name |-> "", columns |-> <<>>,
               rows |-> <<>>, widths |-> NoWidths]

NoError == [exc |-> "None", at |-> "", expected |-> <<>>, found |-> <<>>]

(***************************************************************************)
(* Inputs of the run                                                       *)
(***************************************************************************)
MaxCats == 2
MaxRoles == 2
\* at most this many calls of a run raise
MaxFailures == 2

N_Safety == <<"S", "a", "f", "e", "t", "y">>
N_Quality == <<"Q", "u", "a", "l", "i", "t", "y">>
\* names a Category cell may hold: two of them are the fixed column names
CategoryNames == {H_Role, H_Job_Description, N_Safety, N_Quality}

R_Engineer == <<"E", "n", "g", "i", "n", "e", "e", "r">>
R_Manager == <<"M", "a", "n", "a", "g", "e", "r">>
R_Analyst == <<"A", "n", "a", "l", "y", "s", "t">>
R_Designer == <<"D", "e", "s", "i", "g", "n", "e", "r">>
RolePool == <<R_Engineer, R_Manager, R_Analyst, R_Designer>>

JobOf(name) == <<"j", "o", "b", " ">> \o name
DescriptionOf(name) == <<"a", "b", "o", "u", "t", " ">> \o name
Unused == <<"x">>

MissingFile == [exists |-> FALSE, headers |-> <<>>, rows |-> <<>>]

\* a categories workbook: padded and lowercased headers, a fourth column
CategoriesFile(names) ==
    [exists |-> TRUE,
     headers |-> <<H_CATEGORY_padded, H_description_lower,
                   H_number_of_goals_padded, H_n>>,
     rows |-> [k \in 1..Len(names) |-> <<names[k], DescriptionOf(names[k]), k, Unused>>]]

\* a categories workbook whose headers abbreviate the expected names
AbbreviatedCategoriesFile ==
    [exists |-> TRUE, headers |-> AbbreviatedHeaders,
     rows |-> << <<N_Safety, DescriptionOf(N_Safety), 1>> >>]

RolesFile(n) ==
    [exists |-> TRUE,
     headers |-> <<H_ROLE_padded, H_job_description_lower>>,
     rows |-> [k \in 1..n |-> <<RolePool[k], JobOf(RolePool[k])>>]]

\* a roles workbook with the Role column only
NarrowRolesFile ==
    [exists |-> TRUE, headers |-> <<H_Role>>, rows |-> << <<R_Engineer>> >>]

CategoriesFiles ==
    {MissingFile, AbbreviatedCategoriesFile}
    \cup {CategoriesFile(names) :
            names \in UNION {[1..n -> CategoryNames] : n \in 0..MaxCats}}

RolesFiles ==
    {MissingFile, NarrowRolesFile}
    \cup {RolesFile(n) : n \in 0..Min(MaxRoles, Len(RolePool))}

KeyArg == <<"s", "k", "-", "a", "r", "g">>
KeyEnv == <<"s", "k", "-", "e", "n", "v">>

Init ==
    /\ argv \in [api_key : {None, Some(KeyArg)}, time_period : {DefaultTimePeriod}]
    /\ environ \in [ANTHROPIC_API_KEY : {None, Some(<<>>), Some(KeyEnv)}]
    /\ fs \in [cat : CategoriesFiles, roles : RolesFiles, out : {NoWorkbook}]
    /\ client = NoClient
    /\ categories = NoFrame
    /\ roles = NoFrame
    /\ output_data = EmptyDict
    /\ ri = 0
    /\ ci = 0
    /\ calls = <<>>
    /\ output_df = NoFrame
    /\ pc = "start"
    /\ exit_code = -1            \* still running
    /\ stderr = NoError
    /\ FmtIdle /\ LoadIdle /\ WidthIdle

studyVars == <<fmtVars, loadVars, widthVars>>

\* main(), lines 260-262: the exception is printed to stderr, exit status 1
Abort(exc, at, expected, found) ==
    /\ stderr' = [exc |-> exc, at |-> at, expected |-> expected, found |-> found]
    /\ exit_code' = 1
    /\ pc' = "exited"

\* lines 114-129
InitClient ==
    /\ pc = "start"
    /\ client' = MakeClient(argv.api_key, environ.ANTHROPIC_API_KEY)
    /\ pc' = "load_categories"
    /\ UNCHANGED <<argv, environ, fs, categories, roles, output_data, ri, ci,
                   calls, output_df, exit_code, stderr, studyVars>>

\* lines 121-129: the federated client is built from ANTHROPIC_AZURE_AD_SCOPE and
\* ANTHROPIC_FOUNDRY_BASE_URL, read as they are; either constructor may reject them
InitClientRaises ==
    /\ pc = "start"
    /\ MakeClient(argv.api_key, environ.ANTHROPIC_API_KEY).kind = "AnthropicFoundry"
    /\ Abort("ClientError", "init_client", <<>>, <<>>)
    /\ UNCHANGED <<argv, environ, fs, client, categories, roles, output_data, ri, ci,
                   calls, output_df, studyVars>>

\* line 133
LoadCategories ==
    /\ pc = "load_categories"
    /\ LET got == load_excel_data(fs.cat, CategoryColumns) IN
       IF got.raised # "None"
       THEN /\ Abort(got.raised, "load_categories", got.expected, got.found)
            /\ UNCHANGED categories
       ELSE /\ categories' = got.df
            /\ pc' = "load_roles"
            /\ UNCHANGED <<exit_code, stderr>>
    /\ UNCHANGED <<argv, environ, fs, client, roles, output_data, ri, ci,
                   calls, output_df, studyVars>>

\* line 134
LoadRoles ==
    /\ pc = "load_roles"
    /\ LET got == load_excel_data(fs.roles, RoleColumns) IN
       IF got.raised # "None"
       THEN /\ Abort(got.raised, "load_roles", got.expected, got.found)
            /\ UNCHANGED roles
       ELSE /\ roles' = got.df
            /\ pc' = "init_output"
            /\ UNCHANGED <<exit_code, stderr>>
    /\ UNCHANGED <<argv, environ, fs, client, categories, output_data, ri, ci,
                   calls, output_df, studyVars>>

\* lines 138-150
InitOutput ==
    /\ pc = "init_output"
    /\ output_data' = InitialOutputData(categories)
    /\ ri' = 0
    /\ pc' = "roles_loop"
    /\ UNCHANGED <<argv, environ, fs, client, categories, roles, ci,
                   calls, output_df, exit_code, stderr, studyVars>>

\* lines 152-160: the next role, its name and job description appended
NextRole ==
    /\ pc = "roles_loop"
    /\ ri < Len(roles.rows)
    /\ LET role_row == roles.rows[ri + 1] IN
       output_data' =
           DictAppend(DictAppend(output_data, H_Role, Field(roles, role_row, H_Role)),
                      H_Job_Description, Field(roles, role_row, H_Job_Description))
    /\ ri' = ri + 1
    /\ ci' = 0
    /\ pc' = "categories_loop"
    /\ UNCHANGED <<argv, environ, fs, client, categories, roles,
                   calls, output_df, exit_code, stderr, studyVars>>

\* line 152: the roles are exhausted
RolesDone ==
    /\ pc = "roles_loop"
    /\ ri = Len(roles.rows)
    /\ pc' = "assemble"
    /\ UNCHANGED <<runVars, studyVars>>

\* the arguments of the call at lines 172-180
CallOf(role_row, cat_row) ==
    [pair |-> <<ri, ci + 1>>,
     client |-> client.kind,
     role |-> Field(roles, role_row, H_Role),
     job_description |-> Field(roles, role_row, H_Job_Description),
     category |-> Field(categories, cat_row, H_Category),
     category_description |-> Field(categories, cat_row, H_Description),
     num_goals |-> Field(categories, cat_row, H_Number_of_Goals),
     time_period |-> argv.time_period]

\* lines 163-183: the call returns and its formatted text is appended
GenerateReturns ==
    /\ pc = "categories_loop"
    /\ ci < Len(categories.rows)
    /\ LET call == CallOf(roles.rows[ri], categories.rows[ci + 1])
           goals_text == Reply(call.role, call.category)
       IN  /\ calls' = Append(calls, [call |-> call, raised |-> FALSE, result |-> goals_text])
           /\ output_data' =
                  DictAppend(output_data, call.category, format_goals_for_excel(goals_text))
    /\ ci' = ci + 1
    /\ UNCHANGED <<argv, environ, fs, client, categories, roles, ri,
                   output_df, pc, exit_code, stderr, studyVars>>

\* the except branch storing the bare message
GenerateRaises_bare_message ==
    /\ pc = "categories_loop"
    /\ ci < Len(categories.rows)
    /\ NumRaised(calls) < MaxFailures
    /\ LET call == CallOf(roles.rows[ri], categories.rows[ci + 1])
       IN  /\ calls' = Append(calls, [call |-> call, raised |-> TRUE, result |-> ServiceError])
           /\ output_data' = DictAppend(output_data, call.category, ServiceError)
    /\ ci' = ci + 1
    /\ UNCHANGED <<argv, environ, fs, client, categories, roles, ri,
                   output_df, pc, exit_code, stderr, studyVars>>

\* the except branch handing the pair to the loop again
GenerateRaises_retrying ==
    /\ pc = "categories_loop"
    /\ ci < Len(categories.rows)
    /\ NumRaised(calls) < MaxFailures
    /\ LET call == CallOf(roles.rows[ri], categories.rows[ci + 1])
       IN  calls' = Append(calls, [call |-> call, raised |-> TRUE, result |-> ServiceError])
    /\ UNCHANGED <<argv, environ, fs, client, categories, roles, output_data, ri, ci,
                   output_df, pc, exit_code, stderr, studyVars>>

\* lines 163-180, 185-187: the call raises and the error marker is appended
GenerateRaises ==
    /\ pc = "categories_loop"
    /\ ci < Len(categories.rows)
    /\ NumRaised(calls) < MaxFailures
    /\ LET call == CallOf(roles.rows[ri], categories.rows[ci + 1])
       IN  /\ calls' = Append(calls, [call |-> call, raised |-> TRUE, result |-> ServiceError])
           /\ output_data' =
                  DictAppend(output_data, call.category, ErrorPrefix \o ServiceError)
    /\ ci' = ci + 1
    /\ UNCHANGED <<argv, environ, fs, client, categories, roles, ri,
                   output_df, pc, exit_code, stderr, studyVars>>

\* line 163: the categories are exhausted for this role
CategoriesDone ==
    /\ pc = "categories_loop"
    /\ ci = Len(categories.rows)
    /\ pc' = "roles_loop"
    /\ UNCHANGED <<runVars, studyVars>>

\* line 190
Assemble ==
    /\ pc = "assemble"
    /\ LET built == DataFrame(output_data) IN
       IF built.raised
       THEN /\ Abort("ValueError", "assemble", <<>>, <<>>)
            /\ UNCHANGED output_df
       ELSE /\ output_df' = built.df
            /\ pc' = "write"
            /\ UNCHANGED <<exit_code, stderr>>
    /\ UNCHANGED <<argv, environ, fs, client, categories, roles, output_data,
                   ri, ci, calls, studyVars>>

\* lines 193-217, then main() returns
Write ==
    /\ pc = "write"
    /\ fs' = [fs EXCEPT !.out =
                 [written |-> TRUE,
                  sheet_name |-> "Performance Goals",
                  columns |-> output_df.columns,
                  rows |-> output_df.rows,
                  widths |-> ColumnWidths(Len(Column(categories, H_Category)))]]
    /\ exit_code' = 0
    /\ pc' = "exited"
    /\ UNCHANGED <<argv, environ, client, categories, roles, output_data,
                   ri, ci, calls, output_df, stderr, studyVars>>

Next ==
    \/ InitClient
    \/ InitClientRaises
    \/ LoadCategories
    \/ LoadRoles
    \/ InitOutput
    \/ NextRole
    \/ RolesDone
    \/ GenerateReturns
    \/ GenerateRaises
    \/ CategoriesDone
    \/ Assemble
    \/ Write

Spec == Init /\ [][Next]_vars

(***************************************************************************)
(* Column-width study: lines 200-207 on a sheet of ncat category columns   *)
(***************************************************************************)
MaxWidthCats == 26

InitWidth ==
    /\ ncat \in 0..MaxWidthCats
    /\ idx = 0
    /\ widths = NoWidths
    /\ pc = "sheet_written"
    /\ RunIdle /\ FmtIdle /\ LoadIdle

\* lines 201-202
SetFixedWidths ==
    /\ pc = "sheet_written"
    /\ widths' = FixedWidths
    /\ idx' = FirstCategoryColumn
    /\ pc' = "category_widths"
    /\ UNCHANGED <<ncat, runVars, fmtVars, loadVars>>

\* lines 205-207, one category
SetCategoryWidth ==
    /\ pc = "category_widths"
    /\ idx < FirstCategoryColumn + ncat
    /\ widths' = SetWidth(widths, col_letter(idx), CategoryWidth)
    /\ idx' = idx + 1
    /\ UNCHANGED <<ncat, pc, runVars, fmtVars, loadVars>>

\* line 205: the categories are exhausted
WidthsDone ==
    /\ pc = "category_widths"
    /\ idx = FirstCategoryColumn + ncat
    /\ pc' = "widths_set"
    /\ UNCHANGED <<ncat, idx, widths, runVars, fmtVars, loadVars>>

NextWidth == SetFixedWidths \/ SetCategoryWidth \/ WidthsDone

SpecWidth == InitWidth /\ [][NextWidth]_vars

\* the spreadsheet letter of the n-th column: A..Z, AA, AB, ...
RECURSIVE SheetColumnLetter(_)
SheetColumnLetter(n) ==
    IF n <= 26 THEN <<64 + n>>
    ELSE SheetColumnLetter((n - 1) \div 26) \o <<65 + ((n - 1) % 26)>>

HasWidth(dims, letter, w) == letter \in DOMAIN dims /\ dims[letter] = w

\* C9: whatever the number of categories, column A is 20 wide, column B 40,
\* and the sheet column holding the k-th category, column k + 2, is 50 wide.
C9_EveryCategoryColumnIs50 ==
    pc = "widths_set" =>
        /\ HasWidth(widths, SheetColumnLetter(1), RoleWidth)
        /\ HasWidth(widths, SheetColumnLetter(2), JobDescriptionWidth)
        /\ \A k \in 1..ncat : HasWidth(widths, SheetColumnLetter(k + 2), CategoryWidth)

(***************************************************************************)
(* Claims about the run                                                    *)
(***************************************************************************)
\* the inputs as the files hold them
InputCategories == [k \in 1..Len(fs.cat.rows) |-> fs.cat.rows[k][1]]
InputRoles == [k \in 1..Len(fs.roles.rows) |-> fs.roles.rows[k][1]]
InputJobs == [k \in 1..Len(fs.roles.rows) |-> fs.roles.rows[k][2]]

FixedColumns == <<H_Role, H_Job_Description>>

\* both files were loaded
Loaded ==
    /\ pc \notin {"start", "load_categories", "load_roles"}
    /\ stderr.at \notin {"init_client", "load_categories", "load_roles"}

\* category names are distinct and none is a fixed column name
ValidNames(names) ==
    /\ \A i, j \in 1..Len(names) : names[i] = names[j] => i = j
    /\ \A i \in 1..Len(names) : names[i] # H_Role /\ names[i] # H_Job_Description

\* C1: with valid inputs the run finishes with a table of one row per role,
\* in input order, under the columns Role, Job Description and the
\* categories in input order.
C1_TableShape ==
    (pc = "exited" /\ Loaded /\ ValidNames(InputCategories)) =>
        /\ exit_code = 0
        /\ fs.out.written
        /\ fs.out.columns = FixedColumns \o InputCategories
        /\ Len(fs.out.rows) = Len(InputRoles)
        /\ \A r \in 1..Len(InputRoles) :
              /\ Len(fs.out.rows[r]) = 2 + Len(InputCategories)
              /\ fs.out.rows[r][1] = InputRoles[r]
              /\ fs.out.rows[r][2] = InputJobs[r]

C1_Witness ==
    /\ pc = "exited"
    /\ exit_code = 0
    /\ InputCategories = <<N_Quality, N_Safety>>
    /\ InputRoles = <<R_Engineer, R_Manager>>
    /\ fs.out.columns = <<H_Role, H_Job_Description, N_Quality, N_Safety>>
    /\ Len(fs.out.rows) = 2

FailedPairs == {calls[k].call.pair : k \in {j \in 1..Len(calls) : calls[j].raised}}

\* what the cell of a pair holds when its call returns
GoalsCell(role, category) ==
    GoalLabel \o role \o ParagraphBreak \o GoalLabel \o category

\* C2: when the call raised for exactly one pair, that pair's cell is
\* "Error: " followed by the message and every other cell holds the
\* formatted reply of its own pair.
C2_OneFailureIsLocal ==
    (/\ pc = "exited" /\ exit_code = 0
     /\ ValidNames(InputCategories)
     /\ Cardinality(FailedPairs) = 1) =>
        \A r \in 1..Len(InputRoles), c \in 1..Len(InputCategories) :
            fs.out.rows[r][2 + c] =
                IF <<r, c>> \in FailedPairs
                THEN ErrorPrefix \o ServiceError
                ELSE GoalsCell(InputRoles[r], InputCategories[c])

C2_Witness ==
    /\ pc = "exited" /\ exit_code = 0
    /\ InputCategories = <<N_Safety, N_Quality>>
    /\ Len(InputRoles) = 2
    /\ FailedPairs = {<<2, 1>>}
    /\ fs.out.rows[2][3] = ErrorPrefix \o ServiceError
    /\ fs.out.rows[2][4] = GoalsCell(R_Manager, N_Quality)

FileMissing == ~fs.cat.exists \/ ~fs.roles.exists

\* C6 (as stated): a missing input file ends the run, once it has its
\* client, in a FileNotFoundError with exit status 1, no generation call and
\* no output file.
C6_MissingFileIsFileNotFound ==
    (pc = "exited" /\ FileMissing /\ stderr.at # "init_client") =>
        /\ stderr.exc = "FileNotFoundError"
        /\ exit_code = 1
        /\ calls = <<>>
        /\ ~fs.out.written

\* C6 (amended): a missing input file ends the run with exit status 1, no
\* generation call and no output file; the failure reported is the
\* FileNotFoundError unless an earlier step fails first: the construction of
\* the client, or, the roles file being the missing one, the header check
\* of the categories file.
C6_MissingFileAborts ==
    FileMissing =>
        /\ calls = <<>>
        /\ ~fs.out.written
        /\ pc = "exited" =>
              /\ exit_code = 1
              /\ stderr.exc =
                    IF stderr.at = "init_client" THEN "ClientError"
                    ELSE IF fs.cat.exists /\ HeaderMismatch(fs.cat.headers, CategoryColumns)
                    THEN "ValueError"
                    ELSE "FileNotFoundError"
              /\ stderr.at = "init_client" => client = NoClient

C6_Witness ==
    /\ pc = "exited"
    /\ fs.cat.exists /\ ~fs.roles.exists
    /\ Len(categories.rows) = 2
    /\ stderr.exc = "FileNotFoundError" /\ stderr.at = "load_roles"
    /\ exit_code = 1

\* C7: the calls made so far are the pairs in role-major input order, each
\* once; inside the loops the number of calls is the loop position; the
\* loops end, and the workbook is written, only after all pairs were tried.
C7_OneAttemptPerPairInOrder ==
    LET nR == Len(roles.rows)
        nC == Len(categories.rows)
    IN  /\ \A k \in 1..Len(calls) :
              /\ calls[k].call.pair = <<((k - 1) \div nC) + 1, ((k - 1) % nC) + 1>>
              /\ calls[k].call.role = InputRoles[calls[k].call.pair[1]]
              /\ calls[k].call.category = InputCategories[calls[k].call.pair[2]]
        /\ pc = "categories_loop" => Len(calls) = (ri - 1) * nC + ci
        /\ pc \in {"assemble", "write", "exited"} => Len(calls) = nR * nC
        /\ fs.out.written => Len(calls) = nR * nC

C7_Witness ==
    /\ pc = "exited"
    /\ fs.out.written
    /\ Len(calls) = 4
    /\ calls[2].raised /\ ~calls[3].raised
    /\ calls[3].call.pair = <<2, 1>>

\* C8: a key given with --api-key is the key of the direct client, and the
\* federated client is built only when neither route supplies a key.
C8_CommandLineKeyUsed ==
    pc # "start" =>
        /\ Truthy(argv.api_key) =>
              client.kind = "Anthropic" /\ client.api_key = argv.api_key.value
        /\ client.kind = "AnthropicFoundry" =>
              ~Truthy(argv.api_key) /\ ~Truthy(environ.ANTHROPIC_API_KEY)

\* number of cells each role adds to the column named key
CellsPerRole(key) ==
    (IF key = H_Role \/ key = H_Job_Description THEN 1 ELSE 0)
    + Cardinality({k \in 1..Len(InputCategories) : InputCategories[k] = key})

OutputColumns == {H_Role, H_Job_Description} \cup {InputCategories[k] : k \in 1..Len(InputCategories)}

EvenlyShared == \A k1, k2 \in OutputColumns : CellsPerRole(k1) = CellsPerRole(k2)

\* C10 (as stated): with a shared column name and at least one role the
\* lists end unequal, assembly fails, exit status 1, nothing written.
C10_SharedNameFails ==
    (/\ pc = "exited" /\ Loaded
     /\ ~ValidNames(InputCategories)
     /\ Len(InputRoles) >= 1) =>
        /\ ~SameLength(output_data)
        /\ stderr.exc = "ValueError" /\ stderr.at = "assemble"
        /\ exit_code = 1
        /\ ~fs.out.written

\* C10 (amended): with a shared column name and at least one role, assembly
\* fails with exit status 1 and nothing written, unless every output column
\* is shared equally often (the categories are exactly Role and Job
\* Description, say): then the lists are equal and a table of that many
\* rows per role is written.
C10_SharedNameFailsUnlessEven ==
    (/\ pc = "exited" /\ Loaded
     /\ ~ValidNames(InputCategories)
     /\ Len(InputRoles) >= 1) =>
        IF EvenlyShared
        THEN /\ SameLength(output_data)
             /\ exit_code = 0
             /\ fs.out.written
             /\ Len(fs.out.rows) = Len(InputRoles) * CellsPerRole(H_Role)
        ELSE /\ ~SameLength(output_data)
             /\ stderr.exc = "ValueError" /\ stderr.at = "assemble"
             /\ exit_code = 1
             /\ ~fs.out.written

C10_Witness ==
    /\ pc = "exited"
    /\ InputCategories = <<N_Safety, N_Safety>>
    /\ Len(InputRoles) = 1
    /\ \A k \in 1..Len(calls) : ~calls[k].raised
    /\ Len(calls) = 2
    /\ stderr.at = "assemble"
    /\ exit_code = 1
    /\ ~fs.out.written

====
